---- MODULE Spec2Model ----
(***************************************************************************)
(* Model of reminder-bot: the in-process AsyncQueue (utils/queue.js), the  *)
(* email worker built on it (service/email.service.js), the run            *)
(* orchestrator (service/reminder.service.js), the sheet reader and writer *)
(* (service/sheet.service.js) and the overlap guard (scheduler.js).        *)
(*                                                                         *)
(* Node runs one synchronous segment at a time, so every action below is   *)
(* one segment of code between two awaits (or one callback).               *)
(***************************************************************************)
EXTENDS Naturals, Integers, Sequences, FiniteSets, TLC

\* ---------------------------------------------------------------- bounds
MaxConcurrency == 2   \* concurrency limits 1..MaxConcurrency
MaxJobs == 4          \* jobs pushed to a queue used on its own
MaxDrains == 2        \* drain() calls on a queue used on its own
MaxCalls == 2         \* runOnce() invocations
MaxMidnights == 1     \* times the clock passes midnight
QueueMaxRetries == 1  \* config.queue.maxRetries
SheetReadSize == 1    \* config.batch.sheetReadSize
SheetWriteSize == 1   \* config.batch.sheetWriteSize

MaxRows == 4          \* grid rows under the header of a sheet scanned on its own
MaxPage == 3          \* page sizes 1..MaxPage of a sheet scanned on its own
MaxUnits == 4         \* eligible rows of a sheet written back on its own
MaxChunk == 3         \* chunk sizes 1..MaxChunk of a sheet written back on its own
MaxRetries == 3       \* maxRetries 0..MaxRetries of retryWithBackoff on its own
MaxBase == 2          \* baseDelayMs 1..MaxBase of retryWithBackoff on its own
MaxDelay == 9         \* maxDelayMs 1..MaxDelay of retryWithBackoff on its own
MaxTriggers == 3      \* runOnce() invocations where GET /status is looked at

\* the first day of a behaviour: a Friday
StartDays == {5}

VARIABLES
  queue,      \* the AsyncQueue object: its fields
  inflight,   \* the pending _run(job) calls: job -> position of its worker
  drainSeq,   \* number of drain() promises handed out so far
  drainLog,   \* history: drain promise -> (pending, active) seen when resolved
  runResults, \* email.service.js _runResults
  sched,      \* scheduler.js _running, _lastRun, _lastResult
  run,        \* the processReminders() call in progress: its position and locals
  sheet,      \* the spreadsheet: the "Last Reminded" cell of every row
  rows,       \* the spreadsheet: the other cells of every row (never written)
  cfg,        \* config.js values read by the run
  now,        \* the wall clock: the current calendar day
  calls,      \* history: every runOnce() invocation and what it returned
  enqLog,     \* history: the enqueueEmail() calls since the last run began
  mailed,     \* history: the (sheet, row, today) enqueued by the runs before it
  outcomes,   \* history: how each job's worker call ended, since then
  writeLog,   \* history: the write-back calls and requests, since then
  pageLog,    \* history: the ranges requested and the rows scanned, since then
  retry,      \* a retryWithBackoff() call looked at on its own
  events,     \* history: the events the queue emitted, since then
  proc,       \* the process: up, shutting down after a signal, or exited
  response    \* the body of the last response to GET /status

queueVars == <<queue, inflight, drainSeq, drainLog, events>>
runVars == <<runResults, sched, run, sheet, rows, cfg, now, calls, enqLog, mailed,
             outcomes, writeLog, pageLog, retry, proc, response>>
vars == <<queue, inflight, drainSeq, drainLog, runResults, sched, run, sheet, rows,
          cfg, now, calls, enqLog, mailed, outcomes, writeLog, pageLog, retry,
          events, proc, response>>

\* ------------------------------------------------------------ AsyncQueue
\* The result of a queue method: the new fields, the jobs whose _run was
\* started and the drain promises it resolved.
Out(q, started, resolved) == [q |-> q, started |-> started, resolved |-> resolved]

AsyncQueue(c) ==
  [concurrency |-> c, pending |-> <<>>, active |-> 0, worker |-> FALSE,
   totalEnqueued |-> 0, totalCompleted |-> 0, totalFailed |-> 0,
   drainResolvers |-> <<>>, paused |-> FALSE]

RECURSIVE tickLoop(_, _)
tickLoop(q, started) ==
  IF q.active < q.concurrency /\ Len(q.pending) > 0
  THEN tickLoop([q EXCEPT !.pending = Tail(@), !.active = @ + 1],
                Append(started, Head(q.pending)))
  ELSE Out(q, started, <<>>)

\* a slip in _tick: the loop does not look at the concurrency limit
tickNoLimit(q) ==
  IF ~q.worker \/ q.paused THEN Out(q, <<>>, <<>>)
  ELSE Out([q EXCEPT !.pending = <<>>, !.active = @ + Len(q.pending)], q.pending, <<>>)

\* a _tick that does not look at the paused flag
tickWhilePaused(q) ==
  IF ~q.worker THEN Out(q, <<>>, <<>>) ELSE tickLoop(q, <<>>)

tick(q) ==
  IF ~q.worker \/ q.paused THEN Out(q, <<>>, <<>>) ELSE tickLoop(q, <<>>)

\* a push that does not count the job
pushUncounted(q, job) == tick([q EXCEPT !.pending = Append(@, job)])

push(q, job) ==
  tick([q EXCEPT !.totalEnqueued = @ + 1, !.pending = Append(@, job)])

RECURSIVE pushMany(_, _, _)
pushMany(q, jobs, started) ==
  IF jobs = <<>> THEN Out(q, started, <<>>)
  ELSE LET o == push(q, Head(jobs))
       IN pushMany(o.q, Tail(jobs), started \o o.started)

\* a process() that registers the worker and starts nothing
processNoTick(q) == Out([q EXCEPT !.worker = TRUE], <<>>, <<>>)

process(q) == tick([q EXCEPT !.worker = TRUE])

pause(q) == [q EXCEPT !.paused = TRUE]

resume(q) == tick([q EXCEPT !.paused = FALSE])

\* a slip in _checkDrain: the active count is not looked at
checkDrainPendingOnly(q) ==
  IF Len(q.pending) = 0
  THEN Out([q EXCEPT !.drainResolvers = <<>>], <<>>, q.drainResolvers)
  ELSE Out(q, <<>>, <<>>)

checkDrain(q) ==
  IF Len(q.pending) = 0 /\ q.active = 0
  THEN Out([q EXCEPT !.drainResolvers = <<>>], <<>>, q.drainResolvers)
  ELSE Out(q, <<>>, <<>>)

\* a drain() that always waits for the next _checkDrain
drainAlwaysWaits(q, p) == Out([q EXCEPT !.drainResolvers = Append(@, p)], <<>>, <<>>)

\* drain(): TRUE when the promise is already resolved on return
drainNow(q) == Len(q.pending) = 0 /\ q.active = 0

drain(q, p) ==
  IF drainNow(q) THEN Out(q, <<>>, <<p>>)
  ELSE Out([q EXCEPT !.drainResolvers = Append(@, p)], <<>>, <<>>)

\* a _run whose slot is released on the try path only
runSettleNoFinally(q, ok) ==
  IF ok
  THEN LET t == tick([q EXCEPT !.totalCompleted = @ + 1, !.active = @ - 1])
           d == checkDrain(t.q)
       IN Out(d.q, t.started, d.resolved)
  ELSE Out([q EXCEPT !.totalFailed = @ + 1], <<>>, <<>>)

\* _run after `await this._worker(job)`: ok is TRUE when the worker returned
runSettle(q, ok) ==
  LET counted == IF ok THEN [q EXCEPT !.totalCompleted = @ + 1]
                       ELSE [q EXCEPT !.totalFailed = @ + 1]
      released == [counted EXCEPT !.active = @ - 1]
      t == tick(released)
      d == checkDrain(t.q)
  IN Out(d.q, t.started, d.resolved)

\* an emit moved behind the finally block
emitAfterFinally(q, ok) ==
  LET t == tick([q EXCEPT !.active = @ - 1])
      d == checkDrain(t.q)
  IN [kind |-> IF ok THEN "completed" ELSE "failed",
      pending |-> Len(d.q.pending), active |-> d.q.active,
      drainResolvers |-> d.q.drainResolvers]

\* _run: this.emit("completed", job) or this.emit("failed", job, err), with
\* what a listener sees of the queue while it is called
emit(q, ok) ==
  [kind |-> IF ok THEN "completed" ELSE "failed",
   pending |-> Len(q.pending), active |-> q.active,
   drainResolvers |-> q.drainResolvers]

\* a snapshot that counts the active jobs as pending
statsActiveAsPending(q) ==
  [pending |-> Len(q.pending) + q.active, active |-> 0,
   totalEnqueued |-> q.totalEnqueued, totalCompleted |-> q.totalCompleted,
   totalFailed |-> q.totalFailed]

\* stats(), without the name of the queue
stats(q) ==
  [pending |-> Len(q.pending), active |-> q.active,
   totalEnqueued |-> q.totalEnqueued, totalCompleted |-> q.totalCompleted,
   totalFailed |-> q.totalFailed]

\* ------------------------------------------------------------- helpers
Range(s) == {s[i] : i \in 1..Len(s)}

\* the worker has been called for each started job and is at its first await
Started(fl, started) ==
  [j \in DOMAIN fl \cup Range(started) |->
     IF j \in DOMAIN fl THEN fl[j] ELSE [attempt |-> 0, st |-> "sending"]]

Settled(fl, job) == [j \in DOMAIN fl \ {job} |-> fl[j]]

\* the drain promises o resolves, each with the queue it was resolved on and
\* whether it had been waiting in _drainResolvers (pre: the queue before)
Resolved(log, o, pre) ==
  [p \in DOMAIN log \cup Range(o.resolved) |->
     IF p \in DOMAIN log THEN log[p]
     ELSE [pending |-> Len(o.q.pending), active |-> o.q.active,
           enqueued |-> o.q.totalEnqueued,
           waited |-> p \in Range(pre.drainResolvers)]]

\* the events emitted so far and one more: the event of job, emitted by the
\* _run that found the queue as q when its worker call ended with ok (threw
\* err); early: the listener was called on the queue as _run found it
Emitted(ev, q, job, ok, err) ==
  LET e == emit(q, ok)
      x == [job |-> job, kind |-> e.kind, err |-> IF ok THEN 0 ELSE err,
            early |-> /\ e.pending = Len(q.pending)
                      /\ e.active = q.active
                      /\ e.drainResolvers = q.drainResolvers]
  IN [y \in DOMAIN ev \cup {x} |->
        IF y = x THEN (IF x \in DOMAIN ev THEN ev[x] + 1 ELSE 1) ELSE ev[y]]

\* what the caller sees of a queue method
withQueue(w, o) ==
  [w EXCEPT !.queue = o.q,
            !.inflight = Started(@, o.started),
            !.drainLog = Resolved(@, o, w.queue)]

Apply(o) ==
  /\ queue' = o.q
  /\ inflight' = Started(inflight, o.started)
  /\ drainLog' = Resolved(drainLog, o, queue)

\* --------------------------------------------------- utils/date.js
\* A calendar day is a number; day 1 is a Monday.  A date cell of the sheet is
\* its text: the format it is written in and the day it names.
\*   "iso"   2026-02-25         "us"    02/25/2026
\*   "ist"   25 Feb 2026, 02:30 PM IST   (what nowIST() writes)
\*   "junk"  text that names no date     "blank" the empty cell
DateText(fmt, day) == [fmt |-> fmt, day |-> day]
Blank == DateText("blank", 0)
NoDate == [valid |-> FALSE, day |-> 0]

\* luxon weekday: 1 = Monday .. 7 = Sunday
weekday(day) == ((day - 1) % 7) + 1

\* a guard that knows of Sundays only
isWeekendSundayOnly(day) == weekday(day) = 7

isWeekend(day) == weekday(day) = 6 \/ weekday(day) = 7

getToday == now

nowIST == DateText("ist", now)

\* DateTime.fromISO, then the nine fromFormat patterns, then new Date(text).
\* None reads "dd MMM yyyy, hh:mm a IST": fromISO and the patterns do not
\* match it and V8's Date parser rejects the word IST after a number.
parseDateSafe(text) ==
  IF text.fmt \in {"iso", "us"} THEN [valid |-> TRUE, day |-> text.day]
  ELSE NoDate

\* the difference taken the wrong way round
calculateDaysOverdueSwapped(dueDate, today) == dueDate - today

\* Math.floor(today.diff(dueDate, "days").days), both at the start of a day
calculateDaysOverdue(dueDate, today) == today - dueDate

\* ------------------------------------------- service/reminder.service.js
\* String.prototype.trim on the texts the sheets of the model hold
trim(text) ==
  CASE text = " " -> ""
    [] text = " Completed " -> "Completed"
    [] OTHER -> text

\* /^completed$/i
isCompleted(text) == text \in {"completed", "Completed", "COMPLETED"}

\* buildReminderEmail: the payload, as far as it depends on daysOverdue
buildReminderEmail(daysOverdue) ==
  IF daysOverdue = 0
  THEN [type |-> "reminder", daysOverdue |-> 0, cc |-> FALSE]
  ELSE [type |-> "urgent", daysOverdue |-> daysOverdue, cc |-> TRUE]

\* a dedup check that takes any marker for today's
classifyAnyMarker(row, lastReminded, today) ==
  LET taskName == trim(row.taskName)
      ownerEmail == trim(row.ownerEmail)
      status == trim(row.status)
      dueDate == parseDateSafe(row.dueDate)
  IN IF taskName = "" \/ ownerEmail = "" THEN "badData"
     ELSE IF isCompleted(status) THEN "completed"
     ELSE IF ~dueDate.valid THEN "badData"
     ELSE IF dueDate.day > today THEN "future"
     ELSE IF cfg.preventSameDayDuplicates /\ lastReminded # Blank THEN "dedup"
     ELSE "eligible"

\* the decision of processOneSheet for one row: the first check that matches
classify(row, lastReminded, today) ==
  LET taskName == trim(row.taskName)
      ownerEmail == trim(row.ownerEmail)
      status == trim(row.status)
      dueDate == parseDateSafe(row.dueDate)
      lastDate == parseDateSafe(lastReminded)
  IN IF taskName = "" \/ ownerEmail = "" THEN "badData"
     ELSE IF isCompleted(status) THEN "completed"
     ELSE IF ~dueDate.valid THEN "badData"
     ELSE IF dueDate.day > today THEN "future"
     ELSE IF cfg.preventSameDayDuplicates /\ lastReminded # Blank
             /\ lastDate.valid /\ lastDate.day = today THEN "dedup"
     ELSE "eligible"

ZeroStats ==
  [tasksScanned |-> 0, tasksEligible |-> 0, tasksSkippedCompleted |-> 0,
   tasksSkippedFuture |-> 0, tasksSkippedDedup |-> 0, tasksSkippedBadData |-> 0]

counted(st, class) ==
  LET scanned == [st EXCEPT !.tasksScanned = @ + 1]
  IN CASE class = "badData" -> [scanned EXCEPT !.tasksSkippedBadData = @ + 1]
       [] class = "completed" -> [scanned EXCEPT !.tasksSkippedCompleted = @ + 1]
       [] class = "future" -> [scanned EXCEPT !.tasksSkippedFuture = @ + 1]
       [] class = "dedup" -> [scanned EXCEPT !.tasksSkippedDedup = @ + 1]
       [] OTHER -> [scanned EXCEPT !.tasksEligible = @ + 1]

addStats(a, b) == [k \in DOMAIN a |-> a[k] + b[k]]

\* ------------------------------------------- AsyncQueue used on its own
\* Any caller: push, pushMany, process, pause, resume and drain in any order,
\* with a worker whose every call either returns or throws.
QJob(n) == <<0, 0, n>>

QProcess ==
  /\ Apply(process(queue))
  /\ UNCHANGED <<drainSeq, events, runVars>>

QPush ==
  /\ queue.totalEnqueued < MaxJobs
  /\ Apply(push(queue, QJob(queue.totalEnqueued + 1)))
  /\ UNCHANGED <<drainSeq, events, runVars>>

QPushMany ==
  /\ \E k \in 0..2 :
       /\ queue.totalEnqueued + k <= MaxJobs
       /\ Apply(pushMany(queue, [i \in 1..k |-> QJob(queue.totalEnqueued + i)], <<>>))
  /\ UNCHANGED <<drainSeq, events, runVars>>

QDrain ==
  /\ drainSeq < MaxDrains
  /\ drainSeq' = drainSeq + 1
  /\ Apply(drain(queue, drainSeq + 1))
  /\ UNCHANGED <<events, runVars>>

QPause ==
  /\ queue' = pause(queue)
  /\ UNCHANGED <<inflight, drainSeq, drainLog, events, runVars>>

QResume ==
  /\ Apply(resume(queue))
  /\ UNCHANGED <<drainSeq, events, runVars>>

QWorkerReturns ==
  /\ \E j \in DOMAIN inflight :
       LET o == runSettle(queue, TRUE)
       IN /\ queue' = o.q
          /\ inflight' = Started(Settled(inflight, j), o.started)
          /\ drainLog' = Resolved(drainLog, o, queue)
          /\ events' = Emitted(events, queue, j, TRUE, 0)
  /\ UNCHANGED <<drainSeq, runVars>>

QWorkerThrows ==
  /\ \E j \in DOMAIN inflight :
       LET o == runSettle(queue, FALSE)
       IN /\ queue' = o.q
          /\ inflight' = Started(Settled(inflight, j), o.started)
          /\ drainLog' = Resolved(drainLog, o, queue)
          /\ events' = Emitted(events, queue, j, FALSE, 1)
  /\ UNCHANGED <<drainSeq, runVars>>

Idle == [pc |-> "idle"]

\* no retryWithBackoff() call is looked at
NoRetry == [pc |-> "none"]

\* the process is running and no signal has reached it
Up == [state |-> "up"]

\* no GET /status was answered
NoResponse == [kind |-> "none"]

InitQueue ==
  /\ \E c \in 1..MaxConcurrency : queue = AsyncQueue(c)
  /\ inflight = <<>>
  /\ drainSeq = 0
  /\ drainLog = <<>>
  /\ runResults = [sent |-> 0, failed |-> 0, errors |-> <<>>]
  /\ sched = [running |-> FALSE, lastRun |-> 0, lastResult |-> "none"]
  /\ run = Idle
  /\ sheet = <<>>
  /\ rows = <<>>
  /\ cfg = <<>>
  /\ now = 0
  /\ calls = [n |-> 0, entered |-> {}, returned |-> {}]
  /\ enqLog = <<>>
  /\ mailed = {}
  /\ outcomes = <<>>
  /\ writeLog = {}
  /\ pageLog = <<>>
  /\ events = <<>>
  /\ proc = Up
  /\ response = NoResponse
  /\ retry = NoRetry

NextQueue ==
  \/ QProcess
  \/ QPush
  \/ QPushMany
  \/ QDrain
  \/ QPause
  \/ QResume
  \/ QWorkerReturns
  \/ QWorkerThrows

SpecQueue == InitQueue /\ [][NextQueue]_vars

\* A caller that never pauses the queue, with a worker whose every call ends.
\* the step in which the worker call for job j returns or throws
QWorkerEnds(j) ==
  /\ j \in DOMAIN inflight
  /\ QWorkerReturns \/ QWorkerThrows
  /\ j \notin DOMAIN inflight'

NextQueueLive ==
  \/ QProcess
  \/ QPush
  \/ QPushMany
  \/ QDrain
  \/ QWorkerReturns
  \/ QWorkerThrows

SpecQueueLive ==
  /\ InitQueue
  /\ [][NextQueueLive]_vars
  /\ \A n \in 1..MaxJobs : WF_vars(QWorkerEnds(QJob(n)))

\* ------------------------------------- retryWithBackoff used on its own
RECURSIVE Pow2(_)
Pow2(n) == IF n = 0 THEN 1 ELSE 2 * Pow2(n - 1)

\* the delay without Math.min
backoffDelayNoCap(baseDelayMs, maxDelayMs, attempt, jitter) ==
  baseDelayMs * Pow2(attempt) + jitter

\* Math.min(baseDelayMs * Math.pow(2, attempt) + jitter, maxDelayMs)
backoffDelay(baseDelayMs, maxDelayMs, attempt, jitter) ==
  IF baseDelayMs * Pow2(attempt) + jitter < maxDelayMs
  THEN baseDelayMs * Pow2(attempt) + jitter
  ELSE maxDelayMs

\* retryWithBackoff(fn, opts) up to its first `await fn()`
retryWithBackoff(maxRetries, baseDelayMs, maxDelayMs) ==
  [pc |-> "calling", attempt |-> 0, maxRetries |-> maxRetries,
   baseDelayMs |-> baseDelayMs, maxDelayMs |-> maxDelayMs,
   calls |-> 1, errors |-> <<>>, delays |-> <<>>, thrown |-> 0]

\* a catch that gives up one attempt early
fnRejectsEarly(r, err, jitter) ==
  IF r.attempt + 1 >= r.maxRetries
  THEN [r EXCEPT !.pc = "threw", !.errors = Append(@, err), !.thrown = err]
  ELSE [r EXCEPT !.pc = "sleeping", !.errors = Append(@, err),
                 !.delays = Append(@, backoffDelay(r.baseDelayMs, r.maxDelayMs,
                                                   r.attempt, jitter))]

\* the catch of the loop: fn() rejected with err; jitter is what
\* Math.random() * baseDelayMs gives
fnRejects(r, err, jitter) ==
  IF r.attempt = r.maxRetries
  THEN [r EXCEPT !.pc = "threw", !.errors = Append(@, err), !.thrown = err]
  ELSE [r EXCEPT !.pc = "sleeping", !.errors = Append(@, err),
                 !.delays = Append(@, backoffDelay(r.baseDelayMs, r.maxDelayMs,
                                                   r.attempt, jitter))]

\* `return await fn()`
fnResolves(r) == [r EXCEPT !.pc = "returned"]

\* `await sleep(delay)` is over: attempt++ and the next `await fn()`
sleepOver(r) == [r EXCEPT !.pc = "calling", !.attempt = @ + 1, !.calls = @ + 1]

\* the call when fn() rejects every time: run to its end
RECURSIVE exhaust(_)
exhaust(r) ==
  IF r.pc = "calling" THEN exhaust(fnRejects(r, 1, 0))
  ELSE IF r.pc = "sleeping" THEN exhaust(sleepOver(r))
  ELSE r

\* the options sheet.service.js passes to retryWithBackoff, and its defaults
SheetMaxRetries == 3
DefaultBaseDelayMs == 1000
DefaultMaxDelayMs == 60000

\* calls of the request made by a read or write of the sheet that never succeeds
sheetAttempts ==
  exhaust(retryWithBackoff(SheetMaxRetries, DefaultBaseDelayMs, DefaultMaxDelayMs)).calls

RetryCall ==
  /\ retry.pc = "none"
  /\ \E m \in 0..MaxRetries, b \in 1..MaxBase, d \in 1..MaxDelay :
       retry' = retryWithBackoff(m, b, d)
  /\ UNCHANGED <<queueVars, runResults, sched, run, sheet, rows, cfg, now, calls,
                 enqLog, mailed, outcomes, writeLog, pageLog, proc, response>>

RetryRejects ==
  /\ retry.pc = "calling"
  /\ \E err \in 1..2, jitter \in 0..(retry.baseDelayMs - 1) :
       retry' = fnRejects(retry, err, jitter)
  /\ UNCHANGED <<queueVars, runResults, sched, run, sheet, rows, cfg, now, calls,
                 enqLog, mailed, outcomes, writeLog, pageLog, proc, response>>

RetryResolves ==
  /\ retry.pc = "calling"
  /\ retry' = fnResolves(retry)
  /\ UNCHANGED <<queueVars, runResults, sched, run, sheet, rows, cfg, now, calls,
                 enqLog, mailed, outcomes, writeLog, pageLog, proc, response>>

RetrySleepOver ==
  /\ retry.pc = "sleeping"
  /\ retry' = sleepOver(retry)
  /\ UNCHANGED <<queueVars, runResults, sched, run, sheet, rows, cfg, now, calls,
                 enqLog, mailed, outcomes, writeLog, pageLog, proc, response>>

InitRetry ==
  /\ queue = AsyncQueue(1)
  /\ inflight = <<>>
  /\ drainSeq = 0
  /\ drainLog = <<>>
  /\ runResults = [sent |-> 0, failed |-> 0, errors |-> <<>>]
  /\ sched = [running |-> FALSE, lastRun |-> 0, lastResult |-> "none"]
  /\ run = Idle
  /\ sheet = <<>>
  /\ rows = <<>>
  /\ cfg = <<>>
  /\ now = 0
  /\ calls = [n |-> 0, entered |-> {}, returned |-> {}]
  /\ enqLog = <<>>
  /\ mailed = {}
  /\ outcomes = <<>>
  /\ writeLog = {}
  /\ pageLog = <<>>
  /\ events = <<>>
  /\ proc = Up
  /\ response = NoResponse
  /\ retry = NoRetry

NextRetry ==
  \/ RetryCall
  \/ RetryRejects
  \/ RetryResolves
  \/ RetrySleepOver

SpecRetry == InitRetry /\ [][NextRetry]_vars

\* ------------------------------------------------------ the whole bot
\* Everything a synchronous segment of code may change, as one record: the
\* operators below are the segments, each from the world it starts in to the
\* world it leaves.
World ==
  [queue |-> queue, inflight |-> inflight, drainSeq |-> drainSeq,
   drainLog |-> drainLog, runResults |-> runResults, sched |-> sched,
   run |-> run, sheet |-> sheet, calls |-> calls, enqLog |-> enqLog,
   mailed |-> mailed, outcomes |-> outcomes, writeLog |-> writeLog,
   pageLog |-> pageLog, events |-> events]

Commit(w) ==
  /\ queue' = w.queue
  /\ inflight' = w.inflight
  /\ drainSeq' = w.drainSeq
  /\ drainLog' = w.drainLog
  /\ runResults' = w.runResults
  /\ sched' = w.sched
  /\ run' = w.run
  /\ sheet' = w.sheet
  /\ calls' = w.calls
  /\ enqLog' = w.enqLog
  /\ mailed' = w.mailed
  /\ outcomes' = w.outcomes
  /\ writeLog' = w.writeLog
  /\ pageLog' = w.pageLog
  /\ events' = w.events

NoResults == [sent |-> 0, failed |-> 0, errors |-> <<>>]
NullResult == [kind |-> "null"]
WeekendResult ==
  [kind |-> "skip", skipped |-> TRUE, reason |-> "weekend",
   emailsSent |-> 0, emailsFailed |-> 0]

Job(r, rowIndex) == <<r.id, r.g, rowIndex>>

Min(a, b) == IF a < b THEN a ELSE b

\* processReminders up to its first await, for runOnce() invocation id
newRun(id) ==
  [pc |-> "meta", id |-> id, today |-> getToday, runTimestamp |-> nowIST,
   g |-> 1, totalRows |-> 0, startRow |-> 0, batchNumber |-> 0,
   stats |-> ZeroStats, updates |-> <<>>, sheetUpdates |-> <<>>,
   totals |-> ZeroStats, promise |-> 0, emailResults |-> NoResults,
   w |-> 0, i |-> 0]

summary(r) ==
  [kind |-> "summary", skipped |-> FALSE, date |-> r.today,
   tasksScanned |-> r.totals.tasksScanned,
   tasksEligible |-> r.totals.tasksEligible,
   tasksSkippedCompleted |-> r.totals.tasksSkippedCompleted,
   tasksSkippedFuture |-> r.totals.tasksSkippedFuture,
   tasksSkippedDedup |-> r.totals.tasksSkippedDedup,
   tasksSkippedBadData |-> r.totals.tasksSkippedBadData,
   emailsSent |-> r.emailResults.sent,
   emailsFailed |-> r.emailResults.failed,
   emailErrors |-> r.emailResults.errors]

\* scheduler.js: the guard of runOnce
admitsAlways(s) == TRUE

admits(s) == ~s.running

\* a status that reports the scheduler as idle
getSchedulerStatusIdle(s) ==
  [running |-> FALSE, lastRun |-> s.lastRun, lastResult |-> s.lastResult]

\* getSchedulerStatus(), without the two values copied from the config
getSchedulerStatus(s) ==
  [running |-> s.running, lastRun |-> s.lastRun, lastResult |-> s.lastResult]

\* a finally that does not clear the flag
releasedNever(s) == s

released(s) == [s EXCEPT !.running = FALSE]

\* runOnce after `await processReminders()` returned result; _lastResult is
\* kept as the kind of object it holds
runOnceReturns(w, result) ==
  [w EXCEPT !.sched = released([@ EXCEPT !.lastResult = result.kind, !.lastRun = now]),
            !.calls.returned = @ \cup {[started |-> TRUE, threw |-> FALSE,
                                        result |-> result]},
            !.run = Idle]

\* a catch that stamps _lastRun as well
runOnceCatchesStampsRun(w) ==
  [w EXCEPT !.sched = released([@ EXCEPT !.lastResult = "error", !.lastRun = now]),
            !.calls.returned = @ \cup {[started |-> TRUE, threw |-> TRUE,
                                        result |-> NullResult]},
            !.run = Idle]

\* runOnce when processReminders() threw
runOnceCatches(w) ==
  [w EXCEPT !.sched = released([@ EXCEPT !.lastResult = "error"]),
            !.calls.returned = @ \cup {[started |-> TRUE, threw |-> TRUE,
                                        result |-> NullResult]},
            !.run = Idle]

\* what runOnce returns when the overlap guard rejects the invocation
overlapSentinel == [kind |-> "skip", skipped |-> TRUE, reason |-> "overlap"]

overlapResult == NullResult

\* a request that sends every update of the call
chunkOfWhole(r) == r.sheetUpdates[r.w].updates

\* batchUpdateLastReminded: the chunk at offset i and the request that sends it
chunkOf(r) ==
  LET updates == r.sheetUpdates[r.w].updates
  IN SubSeq(updates, r.i + 1, Min(r.i + cfg.sheetWriteSize, Len(updates)))

issueWrite(w) ==
  [w EXCEPT !.writeLog = @ \cup
     {[what |-> "request", n |-> Cardinality(w.writeLog) + 1,
       g |-> w.run.sheetUpdates[w.run.w].g,
       units |-> chunkOf(w.run),
       pending |-> Len(w.queue.pending), active |-> w.queue.active]}]

\* batchUpdateLastReminded({spreadsheetId, sheetName, updates}) up to its
\* first request
batchUpdateLastReminded(w) ==
  LET called == [w EXCEPT !.run.pc = "write", !.run.i = 0,
                   !.writeLog = @ \cup
                     {[what |-> "call", n |-> Cardinality(w.writeLog) + 1,
                       g |-> w.run.sheetUpdates[w.run.w].g,
                       units |-> w.run.sheetUpdates[w.run.w].updates,
                       pending |-> Len(w.queue.pending),
                       active |-> w.queue.active]}]
  IN issueWrite(called)

\* processReminders, the write-back loop at its head
writeLoop(w) ==
  IF w.run.w > Len(w.run.sheetUpdates)
  THEN runOnceReturns(w, summary(w.run))
  ELSE batchUpdateLastReminded(w)

\* a write-back loop that is left at the first call that throws
writeThrowsBreaks(w) == runOnceReturns(w, summary(w.run))

\* processReminders, the catch of the write-back loop: the next sheet
writeThrows(w) == writeLoop([w EXCEPT !.run.w = @ + 1])

\* drainEmailQueue after `await emailQueue.drain()`, then back in processReminders
afterDrain(w) ==
  writeLoop([w EXCEPT !.run.emailResults = w.runResults,
                      !.runResults = NoResults,
                      !.run.w = 1])

\* a run that does not wait for the queue
scanDoneNoDrain(w) == writeLoop([w EXCEPT !.run.w = 1])

\* processReminders once every sheet was visited
scanDone(w) ==
  IF w.run.totals.tasksEligible > 0
  THEN LET p == w.drainSeq + 1
           called == withQueue([w EXCEPT !.drainSeq = p, !.run.promise = p],
                               drain(w.queue, p))
       IN IF drainNow(w.queue) THEN afterDrain(called)
          ELSE [called EXCEPT !.run.pc = "drain"]
  ELSE writeLoop([w EXCEPT !.run.w = 1])

\* the loop over the configured sheets
nextSheet(w) ==
  IF w.run.g < Len(rows)
  THEN [w EXCEPT !.run.g = @ + 1, !.run.pc = "meta",
                 !.run.stats = ZeroStats, !.run.updates = <<>>]
  ELSE scanDone(w)

\* processOneSheet returned {stats, updates}
sheetReturns(w) ==
  nextSheet([w EXCEPT
    !.run.totals = addStats(@, w.run.stats),
    !.run.sheetUpdates =
       IF Len(w.run.updates) > 0
       THEN Append(@, [g |-> w.run.g, updates |-> w.run.updates])
       ELSE @])

\* a sheet loop without its try and catch
sheetThrowsUncaught(w) == runOnceCatches(w)

\* processOneSheet threw: the catch of the sheet loop
sheetThrows(w) == nextSheet(w)

\* a loop that asks for one range more
pageLoopPastEnd(w) ==
  IF w.run.startRow <= w.run.totalRows + 1
  THEN [w EXCEPT !.run.pc = "page"]
  ELSE sheetReturns(w)

\* fetchTasksBatched: the while loop at its head
pageLoop(w) ==
  IF w.run.startRow <= w.run.totalRows
  THEN [w EXCEPT !.run.pc = "page"]
  ELSE sheetReturns(w)

\* a timestamp read again for every row
runTimestampNow(r) == nowIST

\* processOneSheet: its parameter runTimestamp, the value processReminders
\* read once before the loop over the sheets
runTimestampOf(r) == r.runTimestamp

\* processOneSheet: an Eligible row
enqueueEmail(w, rowIndex) ==
  LET r == w.run
      dueDate == parseDateSafe(rows[r.g][rowIndex - 1].dueDate)
      daysOverdue == calculateDaysOverdue(dueDate.day, r.today)
      pushed == withQueue(w, push(w.queue, Job(r, rowIndex)))
  IN [pushed EXCEPT
        !.enqLog = Append(@, [id |-> r.id, g |-> r.g, rowIndex |-> rowIndex,
                              today |-> r.today,
                              payload |-> buildReminderEmail(daysOverdue)]),
        !.run.updates = Append(@, [rowIndex |-> rowIndex, value |-> runTimestampOf(r)])]

\* processOneSheet: the rows of one page, rowIndex..last
RECURSIVE processRows(_, _, _)
processRows(w, rowIndex, last) ==
  IF rowIndex > last THEN w
  ELSE LET r == w.run
           class == classify(rows[r.g][rowIndex - 1], w.sheet[r.g][rowIndex - 1],
                             r.today)
           c == [w EXCEPT !.run.stats = counted(@, class),
                          !.pageLog[Len(w.pageLog)].rows =
                             Append(@, [rowIndex |-> rowIndex, class |-> class,
                                        row |-> rows[r.g][rowIndex - 1],
                                        lastReminded |-> w.sheet[r.g][rowIndex - 1]])]
       IN processRows(IF class = "eligible" THEN enqueueEmail(c, rowIndex) ELSE c,
                      rowIndex + 1, last)

\* _run of queue.js around the worker of email.service.js: the worker call
\* for job ended (ok: it returned)
settle(w, job, ok) ==
  LET o == runSettle(w.queue, ok)
  IN [w EXCEPT
        !.runResults = IF ok THEN [@ EXCEPT !.sent = @ + 1]
                       ELSE [@ EXCEPT !.failed = @ + 1, !.errors = Append(@, job)],
        !.queue = o.q,
        !.inflight = Started(Settled(@, job), o.started),
        !.drainLog = Resolved(@, o, w.queue),
        !.events = Emitted(@, w.queue, job, ok, w.inflight[job].attempt + 1),
        !.outcomes = [j \in DOMAIN @ \cup {job} |-> IF j = job THEN ok ELSE @[j]]]

\* scheduler.js runOnce, up to the first await of processReminders
runOnce(w) ==
  LET n == w.calls.n + 1
      entered == [w EXCEPT !.calls.n = n,
                           !.calls.entered = @ \cup
                              {[busy |-> w.run.pc # "idle", started |-> admits(w.sched)]}]
      begun == [entered EXCEPT
                  !.sched.running = TRUE,
                  !.run = newRun(n),
                  !.calls.returned = {},
                  !.mailed = @ \cup {<<e.g, e.rowIndex, e.today>> : e \in Range(w.enqLog)},
                  !.enqLog = <<>>,
                  !.outcomes = <<>>,
                  !.writeLog = {},
                  !.pageLog = <<>>,
                  !.events = <<>>,
                  !.drainLog = <<>>]
  IN IF ~admits(w.sched)
     THEN [entered EXCEPT !.calls.returned = @ \cup
             {[started |-> FALSE, threw |-> FALSE, result |-> overlapResult]}]
     ELSE IF cfg.skipWeekends /\ isWeekend(begun.run.today)
     THEN runOnceReturns(begun, WeekendResult)
     ELSE begun

\* the three callers of runOnce: the cron job, startScheduler with
\* RUN_ON_STARTUP, and POST /trigger
Cron ==
  /\ proc.state = "up"
  /\ calls.n < MaxCalls
  /\ Commit(runOnce(World))
  /\ UNCHANGED <<rows, cfg, now, retry, proc, response>>

Startup ==
  /\ calls.n = 0
  /\ Commit(runOnce(World))
  /\ UNCHANGED <<rows, cfg, now, retry, proc, response>>

PostTrigger ==
  /\ calls.n < MaxCalls
  /\ Commit(runOnce(World))
  /\ UNCHANGED <<rows, cfg, now, retry, proc, response>>

\* gridProperties.rowCount of sheet g: the header and the rows under it
rowCount(g) == Len(rows[g]) + 1

\* a row of the grid with no value in any cell
BlankRow == [taskName |-> "", ownerEmail |-> "", dueDate |-> Blank, status |-> ""]

\* values.get on rows first..endRow of sheet g returns the rows up to the last
\* one of the range that holds a value (first - 1: it returns no row)
lastWithDataWholeRange(g, first, endRow) == endRow

RECURSIVE lastWithData(_, _, _)
lastWithData(g, first, endRow) ==
  IF endRow < first THEN first - 1
  ELSE IF rows[g][endRow - 1] # BlankRow \/ sheet[g][endRow - 1] # Blank THEN endRow
  ELSE lastWithData(g, first, endRow - 1)

\* sheets.spreadsheets.get answered
MetaOk ==
  /\ run.pc = "meta"
  /\ Commit(pageLoop([World EXCEPT !.run.totalRows = rowCount(run.g),
                                   !.run.startRow = 2,
                                   !.run.batchNumber = 0]))
  /\ UNCHANGED <<rows, cfg, now, retry, proc, response>>

\* an empty page that is not stepped over
emptyPageStalls(w, endRow) == [w EXCEPT !.run.batchNumber = @ + 1]

\* fetchTasksBatched: rawRows.length === 0
emptyPage(w, endRow) ==
  pageLoop([w EXCEPT !.run.startRow = endRow + 1, !.run.batchNumber = @ + 1])

\* sheets.spreadsheets.values.get answered with the rows of the range that
\* hold data (the rows after the last row with data are not returned)
PageOk ==
  /\ run.pc = "page"
  /\ LET endRow == Min(run.startRow + cfg.sheetReadSize - 1, run.totalRows)
         last == lastWithData(run.g, run.startRow, endRow)
         asked == [World EXCEPT !.pageLog =
                     Append(@, [g |-> run.g, startRow |-> run.startRow,
                                endRow |-> endRow, totalRows |-> run.totalRows,
                                today |-> run.today, at |-> now, rows |-> <<>>,
                                ok |-> TRUE])]
     IN IF last < run.startRow
        THEN Commit(emptyPage(asked, endRow))
        ELSE Commit(pageLoop([processRows(asked, run.startRow, last) EXCEPT
                                 !.run.batchNumber = @ + 1,
                                 !.run.startRow = endRow + 1]))
  /\ UNCHANGED <<rows, cfg, now, retry, proc, response>>

\* a read of the sheet failed on every attempt of retryWithBackoff, which
\* rethrows: fetchTasksBatched throws into processOneSheet
FetchFails ==
  /\ run.pc \in {"meta", "page"}
  /\ Commit(sheetThrows([World EXCEPT !.pageLog =
               Append(@, [g |-> run.g, startRow |-> run.startRow, endRow |-> 0,
                          totalRows |-> run.totalRows, today |-> run.today,
                          at |-> now, rows |-> <<>>, ok |-> FALSE,
                          attempts |-> sheetAttempts])]))
  /\ UNCHANGED <<rows, cfg, now, retry, proc, response>>

\* the promise of emailQueue.drain() was resolved: drainEmailQueue goes on
AfterDrain ==
  /\ run.pc = "drain"
  /\ run.promise \in DOMAIN drainLog
  /\ Commit(afterDrain(World))
  /\ UNCHANGED <<rows, cfg, now, retry, proc, response>>

written(cells, units) ==
  [k \in DOMAIN cells |->
     IF \E u \in Range(units) : u.rowIndex = k + 1
     THEN (CHOOSE u \in Range(units) : u.rowIndex = k + 1).value
     ELSE cells[k]]

\* values.batchUpdate answered: the chunk is in the sheet
WriteOk ==
  /\ run.pc = "write"
  /\ LET entry == run.sheetUpdates[run.w]
         stored == [World EXCEPT !.sheet[entry.g] = written(@, chunkOf(run))]
         i == run.i + cfg.sheetWriteSize
     IN IF i < Len(entry.updates)
        THEN Commit(issueWrite([stored EXCEPT !.run.i = i]))
        ELSE Commit(writeLoop([stored EXCEPT !.run.w = @ + 1]))
  /\ UNCHANGED <<rows, cfg, now, retry, proc, response>>

\* values.batchUpdate failed on every attempt of retryWithBackoff, which
\* rethrows: batchUpdateLastReminded throws into the catch of the write-back
\* loop
WriteFails ==
  /\ run.pc = "write"
  /\ Commit(writeThrows([World EXCEPT
               !.writeLog = @ \cup
                 {[what |-> "failed", n |-> Cardinality(writeLog) + 1,
                   g |-> run.sheetUpdates[run.w].g, units |-> chunkOf(run),
                   pending |-> Len(queue.pending), active |-> queue.active,
                   attempts |-> sheetAttempts]}]))
  /\ UNCHANGED <<rows, cfg, now, retry, proc, response>>

\* transporter.sendMail resolved: the worker returns
SendOk ==
  /\ \E j \in DOMAIN inflight :
       /\ inflight[j].st = "sending"
       /\ Commit(settle(World, j, TRUE))
  /\ UNCHANGED <<rows, cfg, now, retry, proc, response>>

\* transporter.sendMail rejected: retryWithBackoff sleeps, or rethrows after
\* the last attempt
SendFails ==
  /\ \E j \in DOMAIN inflight :
       /\ inflight[j].st = "sending"
       /\ \/ /\ inflight[j].attempt < cfg.maxRetries
             /\ inflight' = [inflight EXCEPT ![j].st = "sleeping"]
             /\ UNCHANGED <<queue, drainSeq, drainLog, runResults, sched, run, sheet,
                            calls, enqLog, mailed, outcomes, writeLog, pageLog,
                            events>>
          \/ /\ inflight[j].attempt = cfg.maxRetries
             /\ Commit(settle(World, j, FALSE))
  /\ UNCHANGED <<rows, cfg, now, retry, proc, response>>

\* the sleep of retryWithBackoff is over: the next attempt
Wake ==
  /\ \E j \in DOMAIN inflight :
       /\ inflight[j].st = "sleeping"
       /\ inflight' = [inflight EXCEPT ![j] = [attempt |-> @.attempt + 1, st |-> "sending"]]
  /\ UNCHANGED <<queue, drainSeq, drainLog, runResults, sched, run, sheet, calls,
                 enqLog, mailed, outcomes, writeLog, pageLog, rows, cfg, now, retry,
                 events, proc, response>>

LastDay == (CHOOSE d \in StartDays : \A e \in StartDays : e <= d) + MaxMidnights

Midnight ==
  /\ now < LastDay
  /\ now' = now + 1
  /\ UNCHANGED <<queueVars, runResults, sched, run, sheet, rows, cfg, calls, enqLog,
                 mailed, outcomes, writeLog, pageLog, retry, proc, response>>

\* a statement of processReminders outside its try blocks throws when the
\* call is resumed
Crash ==
  /\ \/ run.pc = "drain" /\ run.promise \in DOMAIN drainLog
     \/ run.pc = "write"
  /\ Commit(runOnceCatches(World))
  /\ UNCHANGED <<rows, cfg, now, retry, proc, response>>

\* rows of the sheets the behaviours start from
Task(dueDate, status) ==
  [taskName |-> "Task", ownerEmail |-> "owner", dueDate |-> dueDate, status |-> status]

Sheets ==
  { [rows |-> << <<Task(DateText("iso", 5), "In Progress"),
                   Task(DateText("us", 4), "")>>,
                 <<Task(DateText("iso", 5), "Not Started"), BlankRow>> >>,
     sheet |-> << <<Blank, Blank>>, <<Blank, Blank>> >>],
    [rows |-> << <<Task(DateText("iso", 4), "In Progress"),
                   Task(DateText("iso", 5), " Completed ")>>,
                 <<Task(DateText("iso", 5), "In Progress"),
                   [taskName |-> "", ownerEmail |-> "owner",
                    dueDate |-> DateText("junk", 0), status |-> ""]>> >>,
     sheet |-> << <<DateText("iso", 5), Blank>>, <<DateText("junk", 0), Blank>> >>] }

\* config.js: SKIP_WEEKENDS, DEDUP_SAME_DAY, QUEUE_MAX_RETRIES,
\* SHEET_BATCH_SIZE, SHEET_WRITE_BATCH_SIZE
Configs ==
  { [skipWeekends |-> TRUE, preventSameDayDuplicates |-> TRUE,
     maxRetries |-> QueueMaxRetries, sheetReadSize |-> SheetReadSize,
     sheetWriteSize |-> SheetWriteSize],
    [skipWeekends |-> FALSE, preventSameDayDuplicates |-> FALSE,
     maxRetries |-> QueueMaxRetries, sheetReadSize |-> SheetReadSize,
     sheetWriteSize |-> SheetWriteSize] }

Init ==
  /\ \E c \in 1..MaxConcurrency : queue = process(AsyncQueue(c)).q
  /\ inflight = <<>>
  /\ drainSeq = 0
  /\ drainLog = <<>>
  /\ runResults = NoResults
  /\ sched = [running |-> FALSE, lastRun |-> 0, lastResult |-> "none"]
  /\ run = Idle
  /\ \E s \in Sheets : rows = s.rows /\ sheet = s.sheet
  /\ cfg \in Configs
  /\ now \in StartDays
  /\ calls = [n |-> 0, entered |-> {}, returned |-> {}]
  /\ enqLog = <<>>
  /\ mailed = {}
  /\ outcomes = <<>>
  /\ writeLog = {}
  /\ pageLog = <<>>
  /\ events = <<>>
  /\ proc = Up
  /\ response = NoResponse
  /\ retry = NoRetry

Next ==
  \/ Cron
  \/ Startup
  \/ PostTrigger
  \/ MetaOk
  \/ PageOk
  \/ FetchFails
  \/ AfterDrain
  \/ WriteOk
  \/ WriteFails
  \/ SendOk
  \/ SendFails
  \/ Wake
  \/ Midnight

Spec == Init /\ [][Next]_vars

SpecFault == Init /\ [][Next \/ Crash]_vars

\* ------------------------------------------- one sheet scanned on its own
\* One configured sheet of any size up to MaxRows, with blank rows anywhere,
\* read with any page size up to MaxPage.
ScanRows ==
  {Task(DateText("iso", 5), "In Progress"), Task(DateText("iso", 5), " Completed "),
   BlankRow}

ScanConfigs ==
  {[skipWeekends |-> FALSE, preventSameDayDuplicates |-> TRUE,
    maxRetries |-> QueueMaxRetries, sheetReadSize |-> p,
    sheetWriteSize |-> SheetWriteSize] : p \in 1..MaxPage}

InitScan ==
  /\ queue = process(AsyncQueue(MaxConcurrency)).q
  /\ inflight = <<>>
  /\ drainSeq = 0
  /\ drainLog = <<>>
  /\ runResults = NoResults
  /\ sched = [running |-> FALSE, lastRun |-> 0, lastResult |-> "none"]
  /\ run = Idle
  /\ \E n \in 0..MaxRows :
       /\ \E cells \in [1..n -> ScanRows] : rows = <<cells>>
       /\ sheet = <<[k \in 1..n |-> Blank]>>
  /\ cfg \in ScanConfigs
  /\ now \in StartDays
  /\ calls = [n |-> 0, entered |-> {}, returned |-> {}]
  /\ enqLog = <<>>
  /\ mailed = {}
  /\ outcomes = <<>>
  /\ writeLog = {}
  /\ pageLog = <<>>
  /\ events = <<>>
  /\ proc = Up
  /\ response = NoResponse
  /\ retry = NoRetry

NextScan ==
  \/ Cron
  \/ MetaOk
  \/ PageOk
  \/ FetchFails

SpecScan == InitScan /\ [][NextScan]_vars

\* every request to the sheet is answered, one way or the other
SpecScanLive == SpecScan /\ WF_vars(FetchFails \/ MetaOk \/ PageOk)

\* --------------------------------------- one sheet written back on its own
\* One configured sheet of 1..MaxUnits eligible rows, read in one page, whose
\* emails are all sent, written back in chunks of any size up to MaxChunk.
WriteConfigs ==
  {[skipWeekends |-> FALSE, preventSameDayDuplicates |-> TRUE,
    maxRetries |-> QueueMaxRetries, sheetReadSize |-> MaxUnits,
    sheetWriteSize |-> k] : k \in 1..MaxChunk}

InitWrite ==
  /\ queue = process(AsyncQueue(MaxConcurrency)).q
  /\ inflight = <<>>
  /\ drainSeq = 0
  /\ drainLog = <<>>
  /\ runResults = NoResults
  /\ sched = [running |-> FALSE, lastRun |-> 0, lastResult |-> "none"]
  /\ run = Idle
  /\ \E n \in 1..MaxUnits :
       /\ rows = <<[k \in 1..n |-> Task(DateText("iso", 5), "In Progress")]>>
       /\ sheet = <<[k \in 1..n |-> Blank]>>
  /\ cfg \in WriteConfigs
  /\ now \in StartDays
  /\ calls = [n |-> 0, entered |-> {}, returned |-> {}]
  /\ enqLog = <<>>
  /\ mailed = {}
  /\ outcomes = <<>>
  /\ writeLog = {}
  /\ pageLog = <<>>
  /\ events = <<>>
  /\ proc = Up
  /\ response = NoResponse
  /\ retry = NoRetry

NextWrite ==
  \/ Cron
  \/ MetaOk
  \/ PageOk
  \/ SendOk
  \/ AfterDrain
  \/ WriteOk
  \/ WriteFails

SpecWrite == InitWrite /\ [][NextWrite]_vars

\* ------------------------------------------ one row classified on its own
\* One configured sheet of one row holding any combination of the texts
\* below, with dedup on or off; today is day 5.
TaskNames == {"Task", "", " "}
OwnerEmails == {"owner", "", " "}
Statuses == {"", "In Progress", "completed", "Completed", "COMPLETED", " Completed "}
DueDates ==
  {DateText(f, d) : f \in {"iso", "us"}, d \in {2, 4, 5, 6}}
    \cup {DateText("junk", 0), Blank}
Markers ==
  {Blank, DateText("iso", 4), DateText("iso", 5), DateText("us", 5),
   DateText("ist", 4), DateText("ist", 5), DateText("junk", 0)}

ClassifyConfigs ==
  {[skipWeekends |-> FALSE, preventSameDayDuplicates |-> d,
    maxRetries |-> QueueMaxRetries, sheetReadSize |-> SheetReadSize,
    sheetWriteSize |-> SheetWriteSize] : d \in BOOLEAN}

InitClassify ==
  /\ queue = process(AsyncQueue(MaxConcurrency)).q
  /\ inflight = <<>>
  /\ drainSeq = 0
  /\ drainLog = <<>>
  /\ runResults = NoResults
  /\ sched = [running |-> FALSE, lastRun |-> 0, lastResult |-> "none"]
  /\ run = Idle
  /\ \E t \in TaskNames, o \in OwnerEmails, st \in Statuses, d \in DueDates :
       rows = << <<[taskName |-> t, ownerEmail |-> o, dueDate |-> d, status |-> st]>> >>
  /\ \E m \in Markers : sheet = << <<m>> >>
  /\ cfg \in ClassifyConfigs
  /\ now = 5
  /\ calls = [n |-> 0, entered |-> {}, returned |-> {}]
  /\ enqLog = <<>>
  /\ mailed = {}
  /\ outcomes = <<>>
  /\ writeLog = {}
  /\ pageLog = <<>>
  /\ events = <<>>
  /\ proc = Up
  /\ response = NoResponse
  /\ retry = NoRetry

SpecClassify == InitClassify /\ [][NextScan]_vars

\* ------------------------------------------------- the process shut down
\* One configured sheet of eligible rows as above, mails that may fail, and
\* SIGINT or SIGTERM at any moment.
\* shutdown(signal): stopScheduler() stops the cron job and the timer of the
\* grace period is set
shutdown ==
  /\ proc.state = "up"
  /\ proc' = [state |-> "stopping"]
  /\ UNCHANGED <<queueVars, runResults, sched, run, sheet, rows, cfg, now, calls,
                 enqLog, mailed, outcomes, writeLog, pageLog, retry, response>>

\* the timer of shutdown fires: process.exit(0)
GraceOver ==
  /\ proc.state = "stopping"
  /\ proc' = [state |-> "exited"]
  /\ UNCHANGED <<queueVars, runResults, sched, run, sheet, rows, cfg, now, calls,
                 enqLog, mailed, outcomes, writeLog, pageLog, retry, response>>

\* no code runs in a process that has exited
Alive == proc.state # "exited"

NextShutdown ==
  \/ Alive /\ Cron
  \/ Alive /\ PostTrigger
  \/ Alive /\ MetaOk
  \/ Alive /\ PageOk
  \/ Alive /\ SendOk
  \/ Alive /\ SendFails
  \/ Alive /\ Wake
  \/ Alive /\ AfterDrain
  \/ Alive /\ WriteOk
  \/ shutdown
  \/ GraceOver

SpecShutdown == InitWrite /\ [][NextShutdown]_vars

\* ------------------------------------------------- GET /status answered
\* One configured sheet of eligible rows as above, write-backs that may fail,
\* POST /trigger and GET /status at any moment.
\* server.js, case "/status": getSchedulerStatus() and emailQueueStats()
\* server.js, case "/trigger": runOnce() is called and not awaited
Trigger ==
  /\ calls.n < MaxTriggers
  /\ Commit(runOnce(World))
  /\ UNCHANGED <<rows, cfg, now, retry, proc, response>>

GetStatus ==
  /\ response' = [kind |-> "status", scheduler |-> getSchedulerStatus(sched),
                  emailQueue |-> stats(queue)]
  /\ UNCHANGED <<queueVars, runResults, sched, run, sheet, rows, cfg, now, calls,
                 enqLog, mailed, outcomes, writeLog, pageLog, retry, proc>>

NextStatus ==
  \/ Cron
  \/ Trigger
  \/ MetaOk
  \/ PageOk
  \/ SendOk
  \/ AfterDrain
  \/ WriteOk
  \/ WriteFails
  \/ GetStatus

SpecStatus == InitWrite /\ [][NextStatus]_vars

\* ------------------------------------------- a configured sheet not found
\* The two configured sheets as above, every request answered and every mail
\* sent; at the time of a probe the spreadsheet may have no tab of the
\* configured name (the tab was renamed or deleted).
\* a probe whose missing tab is an error that leaves the run
sheetNotFoundThrows(w) == runOnceCatches(w)

\* fetchTasksBatched: `if (!sheetMeta) return`; the for await of
\* processOneSheet ends and it returns its empty stats and updates
sheetNotFound(w) == sheetReturns(w)

\* sheets.spreadsheets.get answered with no sheet of the configured title
MetaNotFound ==
  /\ run.pc = "meta"
  /\ Commit(sheetNotFound([World EXCEPT !.pageLog =
               Append(@, [g |-> run.g, startRow |-> 0, endRow |-> 0,
                          totalRows |-> 0, today |-> run.today, at |-> now,
                          rows |-> <<>>, ok |-> TRUE, found |-> FALSE])]))
  /\ UNCHANGED <<rows, cfg, now, retry, proc, response>>

NextNotFound ==
  \/ Cron
  \/ MetaOk
  \/ MetaNotFound
  \/ PageOk
  \/ SendOk
  \/ AfterDrain
  \/ WriteOk

SpecNotFound == Init /\ [][NextNotFound]_vars

\* ---------------------------------------------------------------- claims

\* C1: in every reachable state of AsyncQueue, for every concurrency limit
\* and under any interleaving of push, pushMany, process, pause, resume and
\* job completions or failures, the number of active jobs (_active) is
\* between 0 and the concurrency limit.
C1_ActiveWithinLimit ==
  /\ queue.active \in 0..queue.concurrency
  /\ queue.active = Cardinality(DOMAIN inflight)

\* the limit is reached with a job still waiting behind it
C1_Witness ==
  /\ queue.active = queue.concurrency
  /\ queue.concurrency > 1
  /\ Len(queue.pending) > 0
  /\ queue.totalCompleted + queue.totalFailed > 0

\* C2: a promise returned by drain() is resolved if and only if pending = 0
\* and active = 0 at the moment it is resolved: never while a job is pending
\* or active, by the completion (or failure) step that empties the queue (no
\* waiter is left behind on an empty queue), and at once when drain() is
\* called on a queue with no pending and no active job.
C2_DrainIffEmpty ==
  /\ \A p \in DOMAIN drainLog : drainLog[p].pending = 0 /\ drainLog[p].active = 0
  /\ (Len(queue.pending) = 0 /\ queue.active = 0) => queue.drainResolvers = <<>>
  /\ \A p \in 1..drainSeq : (p \in DOMAIN drainLog) # (p \in Range(queue.drainResolvers))

\* one promise was resolved at once on a queue nothing was ever pushed to,
\* another waited and was resolved by the step that emptied the queue
C2_Witness ==
  /\ \E p \in DOMAIN drainLog : drainLog[p].waited
  /\ \E p \in DOMAIN drainLog : ~drainLog[p].waited /\ drainLog[p].enqueued = 0
  /\ queue.totalFailed > 0

\* C3: at most one reminder run executes at any time: a runOnce() invocation
\* (cron, startup or POST /trigger) that starts while another run is still
\* executing never calls processReminders: it leaves the run in progress as
\* it is, reads no sheet, enqueues no job and issues no write-back.
C3_OverlapNeverRuns ==
  [][(calls'.n > calls.n /\ run.pc # "idle") =>
       /\ run' = run
       /\ queue' = queue /\ inflight' = inflight
       /\ enqLog' = enqLog /\ writeLog' = writeLog /\ sheet' = sheet
       /\ [busy |-> TRUE, started |-> FALSE] \in calls'.entered]_vars

\* an invocation was rejected while a run was waiting for a sheet, for the
\* queue or for a write-back
C3_Witness ==
  /\ [busy |-> TRUE, started |-> FALSE] \in calls.entered
  /\ run.pc \in {"page", "drain", "write"}
  /\ sched.running

\* C4 as stated: a runOnce() invocation rejected by the overlap guard returns
\* the result {skipped: true, reason: "overlap"}.
C4_OverlapSentinel ==
  \A c \in calls.returned : ~c.started => c.result = overlapSentinel

\* C4 as amended: a runOnce() invocation rejected by the overlap guard
\* returns null.
C4_OverlapReturnsNull ==
  \A c \in calls.returned : ~c.started => c.result = NullResult

C4_Witness ==
  /\ \E c \in calls.returned : ~c.started
  /\ [busy |-> TRUE, started |-> FALSE] \in calls.entered

\* C5: the busy flag (_running) is cleared whenever a run ends, whether
\* processReminders returns a summary, returns a weekend skip, or throws:
\* whenever no admitted run is executing _running is false, and an invocation
\* that arrives then is admitted, so the guard is never stuck busy.
C5_FlagClearedWhenRunEnds ==
  /\ run.pc = "idle" => ~sched.running
  /\ \A c \in calls.entered : ~c.busy => c.started
  /\ \A c \in calls.returned : c.started => ~sched.running

\* a run was admitted after an earlier one had ended, and it threw
C5_Witness ==
  /\ calls.n > 1
  /\ \E c \in calls.returned : c.started /\ c.threw
  /\ sched.lastResult = "error"
  /\ ~sched.running

\* C6: with same-day dedup enabled a task receives at most one email per
\* day: over any sequence of runs whose "today" is the same calendar day, no
\* record (sheet, row) has a delivery job enqueued more than once.
C6_OneMailPerDay ==
  cfg.preventSameDayDuplicates =>
    \A k \in 1..Len(enqLog) :
      /\ <<enqLog[k].g, enqLog[k].rowIndex, enqLog[k].today>> \notin mailed
      /\ \A m \in 1..Len(enqLog) :
           (enqLog[m].g = enqLog[k].g /\ enqLog[m].rowIndex = enqLog[k].rowIndex)
             => m = k

\* the run that has just returned a summary
Returned ==
  /\ run.pc = "idle"
  /\ \E c \in calls.returned : c.started /\ c.result.kind = "summary"

TheSummary ==
  (CHOOSE c \in calls.returned : c.started /\ c.result.kind = "summary").result

\* the write-back calls of the run that hold row rowIndex of sheet g
CallsWith(g, rowIndex) ==
  {c \in writeLog : c.what = "call" /\ c.g = g
                      /\ \E u \in Range(c.units) : u.rowIndex = rowIndex}

\* C7: within a run, every record classified Eligible yields exactly one
\* enqueued job and exactly one WriteBackUnit that is later passed to the
\* write-back of its sheet, also when a later page of the same sheet fails
\* to fetch after the record was enqueued.
C7_EligibleOneJobOneUnit ==
  Returned =>
    \A k \in 1..Len(enqLog) :
      /\ Cardinality({m \in 1..Len(enqLog) :
                        enqLog[m].g = enqLog[k].g
                        /\ enqLog[m].rowIndex = enqLog[k].rowIndex}) = 1
      /\ Cardinality(CallsWith(enqLog[k].g, enqLog[k].rowIndex)) = 1
      /\ \A c \in CallsWith(enqLog[k].g, enqLog[k].rowIndex) :
           Cardinality({i \in 1..Len(c.units) :
                          c.units[i].rowIndex = enqLog[k].rowIndex}) = 1

\* C8: write-back never starts before drain resolves: in every run, no
\* batchUpdateLastReminded call and no batchUpdate request is issued while
\* the email queue still has a pending or active job.
C8_WriteBackAfterDrain ==
  \A c \in writeLog : c.pending = 0 /\ c.active = 0

\* a write-back was issued in a run that had to wait for the queue
C8_Witness ==
  /\ run.pc = "write"
  /\ writeLog # {}
  /\ run.promise \in DOMAIN drainLog
  /\ drainLog[run.promise].waited

\* the jobs of the run whose worker gave up
FailedJobs ==
  {k \in 1..Len(enqLog) :
     LET j == <<enqLog[k].id, enqLog[k].g, enqLog[k].rowIndex>>
     IN j \in DOMAIN outcomes /\ ~outcomes[j]}

AllSettled ==
  \A k \in 1..Len(enqLog) :
    <<enqLog[k].id, enqLog[k].g, enqLog[k].rowIndex>> \in DOMAIN outcomes

\* C9: a record whose delivery job permanently failed still has its row
\* position included in the write-back of its sheet, exactly like a record
\* whose delivery succeeded.
C9_FailedStillWrittenBack ==
  Returned =>
    \A k \in FailedJobs : CallsWith(enqLog[k].g, enqLog[k].rowIndex) # {}

\* C10: for a run with N enqueued jobs of which F permanently fail, the
\* returned summary has emailsSent = N - F, emailsFailed = F and exactly F
\* entries in emailErrors.
C10_SummaryCounts ==
  (Returned /\ AllSettled) =>
    /\ TheSummary.emailsSent = Len(enqLog) - Cardinality(FailedJobs)
    /\ TheSummary.emailsFailed = Cardinality(FailedJobs)
    /\ Len(TheSummary.emailErrors) = Cardinality(FailedJobs)

\* C11: retryWithBackoff on an operation that fails every time attempts it
\* exactly maxRetries + 1 times, sleeps between consecutive attempts only
\* (maxRetries sleeps, none after the final attempt), and then re-raises the
\* error of the last attempt.
C11_AttemptsThenRethrows ==
  /\ retry.pc = "threw" =>
       /\ retry.calls = retry.maxRetries + 1
       /\ Len(retry.errors) = retry.maxRetries + 1
       /\ Len(retry.delays) = retry.maxRetries
       /\ retry.thrown = retry.errors[Len(retry.errors)]
  /\ retry.pc \in {"calling", "threw", "returned"} =>
       Len(retry.delays) = retry.calls - 1
  /\ retry.pc = "sleeping" =>
       Len(retry.delays) = retry.calls /\ retry.calls <= retry.maxRetries

\* every attempt failed, with different errors, and the last one was re-raised
C11_Witness ==
  /\ retry.pc = "threw"
  /\ retry.maxRetries >= 2
  /\ retry.errors[1] # retry.thrown

\* C12: the retry delay min(baseDelay * 2^attempt + jitter, maxDelay), with
\* jitter drawn from [0, baseDelay), never exceeds maxDelay and is
\* non-decreasing in the attempt index for every pair of jitter draws.
C12_DelayCappedNonDecreasing ==
  retry.pc # "none" =>
    \A i \in 1..Len(retry.delays) :
      /\ retry.delays[i] <= retry.maxDelayMs
      /\ i > 1 => retry.delays[i] >= retry.delays[i - 1]

\* a later delay was longer than an earlier one, and one was cut to maxDelay
C12_Witness ==
  /\ retry.pc # "none"
  /\ Len(retry.delays) >= 3
  /\ retry.delays[2] > retry.delays[1]
  /\ \E i \in 1..Len(retry.delays) :
       /\ retry.delays[i] = retry.maxDelayMs
       /\ retry.baseDelayMs * Pow2(i - 1) > retry.maxDelayMs

\* the pages of sheet g handed to processOneSheet, in order
IsYielded(e) == e.ok /\ e.rows # <<>>

Yielded(g) == SelectSeq(pageLog, LAMBDA e : e.g = g /\ IsYielded(e))

\* the ranges of sheet g that were asked for and answered, in order
Ranges(g) == SelectSeq(pageLog, LAMBDA e : e.g = g /\ e.ok)

\* the scan of the only sheet is over and no request of it failed
ScanComplete ==
  /\ calls.n > 0
  /\ run.pc \notin {"meta", "page"}
  /\ run.pc = "idle" => \E c \in calls.returned : c.started
  /\ \A k \in 1..Len(pageLog) : pageLog[k].ok

ScannedCount ==
  IF run.pc = "idle" THEN TheSummary.tasksScanned ELSE run.totals.tasksScanned

\* the records of sheet g, when they fill the rows under the header without
\* a blank row among them
IsData(g, k) == rows[g][k] # BlankRow
DataRows(g) == Cardinality({k \in 1..Len(rows[g]) : IsData(g, k)})
Contiguous(g) == \A k \in 1..Len(rows[g]) : IsData(g, k) => \A m \in 1..k : IsData(g, m)

CeilDiv(n, p) == (n + p - 1) \div p

C14_PositionsAndRanges ==
  /\ run.pc = "page" => run.startRow \in 2..run.totalRows
  /\ \A g \in 1..Len(rows) :
       LET A == Ranges(g)
       IN \A k \in 1..Len(A) :
            /\ A[k].startRow = IF k = 1 THEN 2 ELSE A[k - 1].endRow + 1
            /\ A[k].startRow <= A[k].endRow
            /\ A[k].endRow <= A[k].totalRows
            /\ Len(A[k].rows) <= A[k].endRow - A[k].startRow + 1
            /\ \A i \in 1..Len(A[k].rows) :
                 /\ A[k].rows[i].rowIndex = A[k].startRow + i - 1
                 /\ A[k].rows[i].rowIndex \in 2..A[k].totalRows

\* a scan of three ranges that reached the last row of the grid
C14_Witness ==
  /\ Len(Ranges(1)) >= 3
  /\ Ranges(1)[Len(Ranges(1))].endRow = Ranges(1)[1].totalRows
  /\ Len(Yielded(1)) >= 2

\* C15: the scan terminates for every total count, every page size and every
\* pattern of empty pages: a page for which the source returns zero rows is
\* not yielded to the consumer (it scans nothing and enqueues nothing), the
\* scan advances to the next range, and the start position never decreases.
C15_ScanTerminates ==
  /\ [][LET asked == Len(pageLog') = Len(pageLog) + 1 /\ pageLog'[Len(pageLog')].ok
         empty == asked /\ pageLog'[Len(pageLog')].rows = <<>>
     IN /\ empty =>
             /\ enqLog' = enqLog /\ queue'.totalEnqueued = queue.totalEnqueued
             /\ run'.pc = "page" => run'.stats = run.stats
        /\ (asked /\ run'.pc = "page") => run'.startRow > run.startRow]_vars
  /\ (run.pc \in {"meta", "page"}) ~> (run.pc \notin {"meta", "page"})

\* a scan that stepped over an empty page between two pages with records
C15_Witness ==
  /\ ScanComplete
  /\ \E k \in 2..(Len(pageLog) - 1) :
       /\ ~IsYielded(pageLog[k])
       /\ IsYielded(pageLog[k - 1])
       /\ IsYielded(pageLog[k + 1])

\* C16: a failing page fetch (or total-count probe) is attempted 4 times
\* (maxRetries 3) and then ends the scan of that sheet with an error; the
\* error is caught per sheet, so every later configured sheet is still
\* scanned, and the run still drains (it waits for the jobs it enqueued) and
\* returns a summary.
C16_FailedGroupIsolated ==
  /\ \A k \in 1..Len(pageLog) : ~pageLog[k].ok => pageLog[k].attempts = 4
  /\ \A c \in calls.returned : c.started => ~c.threw
  /\ Returned =>
       /\ \A g \in 1..Len(rows) : \E k \in 1..Len(pageLog) : pageLog[k].g = g
       /\ enqLog # <<>> => drainLog # <<>>

\* the batched write requests of the run for sheet g, in the order issued
Requests(g) == {c \in writeLog : c.what = "request" /\ c.g = g}

RequestSeq(g) ==
  [j \in 1..Cardinality(Requests(g)) |->
     CHOOSE c \in Requests(g) :
       Cardinality({d \in Requests(g) : d.n < c.n}) = j - 1]

WriteFailed(g) == \E c \in writeLog : c.what = "failed" /\ c.g = g

\* C17: batchUpdateLastReminded given n > 0 units and chunk size k issues
\* exactly ceil(n/k) batched write calls when no call fails, one after
\* another (a call is issued only after the previous one has finished), in
\* list order, every chunk but the last holding k units, and every unit
\* appearing in exactly one chunk.
C17_ChunkedSequentialWrites ==
  \A c \in writeLog : (c.what = "call" /\ ~WriteFailed(c.g)) =>
    LET n == Len(c.units)
        k == cfg.sheetWriteSize
        Q == RequestSeq(c.g)
        writing == run.pc = "write" /\ run.sheetUpdates[run.w].g = c.g
    IN /\ n > 0
       /\ \A j \in 1..Len(Q) :
            Q[j].units = SubSeq(c.units, (j - 1) * k + 1, Min(j * k, n))
       /\ writing => Len(Q) = (run.i \div k) + 1 /\ run.i < n
       /\ ~writing => Len(Q) = CeilDiv(n, k)

\* four units were written in chunks of three: two requests, the second
\* issued after the first was answered
C17_Witness ==
  /\ run.pc = "idle"
  /\ cfg.sheetWriteSize = 3
  /\ \E c \in writeLog : c.what = "call" /\ Len(c.units) = 4 /\ ~WriteFailed(c.g)
  /\ Cardinality(Requests(1)) = 2
  /\ sheet[1][4] # Blank

\* C18: when a write-back chunk fails on every retry only that chunk is
\* abandoned: the write-back of the same sheet continues with the subsequent
\* chunks (every chunk of the call is requested), and the run is not aborted.
C18_LaterChunksStillWritten ==
  /\ \A c \in calls.returned : c.started => ~c.threw
  /\ Returned =>
       \A c \in writeLog : c.what = "call" =>
         \A j \in 1..Len(c.units) :
           \E q \in Requests(c.g) : \E m \in 1..Len(q.units) : q.units[m] = c.units[j]

\* the rows scanned by the run so far, each with the today of the run
Scanned ==
  UNION {{[today |-> pageLog[k].today, x |-> pageLog[k].rows[i]] :
            i \in 1..Len(pageLog[k].rows)} : k \in 1..Len(pageLog)}

\* a text that is blank once trimmed
IsBlankText(text) == text \in {"", " "}

\* the calendar day a date text names
NamesDay(text, day) == text.fmt \in {"iso", "us", "ist"} /\ text.day = day
NamesNoDay(text) == text.fmt \in {"junk", "blank"}

\* the classification the ordered checks give
Expected(row, marker, today) ==
  IF IsBlankText(row.taskName) \/ IsBlankText(row.ownerEmail) THEN "badData"
  ELSE IF row.status \in {"completed", "Completed", "COMPLETED", " Completed "}
  THEN "completed"
  ELSE IF NamesNoDay(row.dueDate) THEN "badData"
  ELSE IF row.dueDate.day > today THEN "future"
  ELSE IF cfg.preventSameDayDuplicates /\ NamesDay(marker, today) THEN "dedup"
  ELSE "eligible"

\* C19: the checks of processOneSheet are applied to each record in a fixed
\* order and the first that matches decides: blank task name or recipient ->
\* bad data; status "completed" ignoring case -> completed; unparseable due
\* date -> bad data; due date strictly after today -> future (a due date
\* equal to today is not rejected); dedup enabled and last-reminded marker on
\* the same calendar day as today -> duplicate; otherwise Eligible.
C19_FirstMatchDecides ==
  \A s \in Scanned : s.x.class = Expected(s.x.row, s.x.lastReminded, s.today)

\* C20: with dedup enabled, a record with a last-reminded marker dated today
\* is never enqueued, whatever the values of its other fields.
C20_MarkedTodayNeverEnqueued ==
  cfg.preventSameDayDuplicates =>
    \A s \in Scanned : NamesDay(s.x.lastReminded, s.today) => s.x.class # "eligible"

\* C21: for every Eligible record the overdue-day count is the whole number
\* of days from the due date to today and is never negative: a due date
\* equal to today gives 0 (a "reminder" payload without manager CC), a due
\* date d days in the past gives d (an "urgent" payload CC'd to the manager),
\* in particular one day in the past gives 1.
C21_OverdueDayCount ==
  \A k \in 1..Len(enqLog) :
    LET e == enqLog[k]
        due == rows[e.g][e.rowIndex - 1].dueDate.day
    IN /\ e.payload.daysOverdue \in Nat
       /\ e.payload.daysOverdue = e.today - due
       /\ due = e.today =>
            e.payload = [type |-> "reminder", daysOverdue |-> 0, cc |-> FALSE]
       /\ due < e.today =>
            e.payload = [type |-> "urgent", daysOverdue |-> e.today - due, cc |-> TRUE]
       /\ due = e.today - 1 => e.payload.daysOverdue = 1

\* a record due three days ago was enqueued as urgent
C21_Witness ==
  /\ Len(enqLog) = 1
  /\ rows[1][1].dueDate.day = enqLog[1].today - 3
  /\ enqLog[1].payload.type = "urgent"
  /\ enqLog[1].payload.daysOverdue = 3

\* C22: the reference "today" and the write-back timestamp are fixed once at
\* the start of a run and never change during it: every record of every
\* group in the run is classified against the same "today", and every
\* WriteBackUnit of the run carries the same timestamp value, even when the
\* run spans a date boundary.
C22_TodayAndTimestampFixed ==
  /\ [][(run.pc # "idle" /\ run'.pc # "idle") =>
          run'.today = run.today /\ run'.runTimestamp = run.runTimestamp]_vars
  /\ [](LET held == IF run.pc = "idle" THEN {}
                     ELSE {Range(run.sheetUpdates[k].updates) :
                             k \in 1..Len(run.sheetUpdates)} \cup {Range(run.updates)}
            units == UNION ({Range(c.units) : c \in writeLog} \cup held)
        IN /\ \A k, m \in 1..Len(pageLog) : pageLog[k].today = pageLog[m].today
           /\ \A k \in 1..Len(enqLog), m \in 1..Len(pageLog) :
                enqLog[k].today = pageLog[m].today
           /\ \A u, v \in units : u.value = v.value
           /\ run.pc # "idle" =>
                /\ \A k \in 1..Len(pageLog) : pageLog[k].today = run.today
                /\ \A u \in units : u.value = run.runTimestamp)

\* two rows of a sheet were enqueued on different days of the clock and are
\* written back by one call
C22_Witness ==
  \E c \in writeLog :
    /\ c.what = "call"
    /\ Len(c.units) = 2
    /\ \E k, m \in 1..Len(pageLog) :
         /\ pageLog[k].g = c.g /\ pageLog[m].g = c.g
         /\ pageLog[k].at # pageLog[m].at
         /\ \E i \in 1..Len(pageLog[k].rows) : pageLog[k].rows[i].class = "eligible"
         /\ \E i \in 1..Len(pageLog[m].rows) : pageLog[m].rows[i].class = "eligible"

\* C23: failure of one job never aborts or blocks the others: when a job's
\* worker throws, its concurrency slot is released and the next pending job
\* is started, and provided a worker is registered, the queue is not paused
\* and every worker call terminates, every pushed job is eventually started
\* and ends as completed or failed, whatever the other jobs do.
C23_FailureNeverBlocks ==
  /\ [][queue'.totalFailed > queue.totalFailed =>
          IF Len(queue.pending) > 0
          THEN /\ Head(queue.pending) \in DOMAIN inflight'
               /\ queue'.pending = Tail(queue.pending)
               /\ queue'.active = queue.active
          ELSE queue'.active = queue.active - 1]_vars
  /\ \A n \in 1..MaxJobs :
       (queue.worker /\ queue.totalEnqueued >= n)
         ~> (\E e \in DOMAIN events :
               e.job = QJob(n) /\ e.kind \in {"completed", "failed"})

\* behind a job that failed on a queue of one slot, two later jobs were run
\* and one of them failed as well
C23_Witness ==
  /\ queue.concurrency = 1
  /\ \E e \in DOMAIN events : e.job = QJob(1) /\ e.kind = "failed"
  /\ \E e \in DOMAIN events : e.job = QJob(2) /\ e.kind = "completed"
  /\ \E e \in DOMAIN events : e.job = QJob(3) /\ e.kind = "failed"
  /\ QJob(4) \in DOMAIN inflight

\* C24: every job pushed to the queue produces exactly one outcome event,
\* either "completed" or "failed" and never both or twice; "failed" is
\* emitted only after the worker's internal retries are exhausted and carries
\* that terminal error, and the outcome is emitted before the job's slot is
\* released and before any drain waiter is resolved.
C24_OneOutcomeEventPerJob ==
  /\ \A e \in DOMAIN events :
       /\ events[e] = 1
       /\ \A f \in DOMAIN events : f.job = e.job => f = e
       /\ e.kind \in {"completed", "failed"}
       /\ e.kind = "failed" => e.err = cfg.maxRetries + 1
       /\ e.early
       /\ e.job \notin DOMAIN inflight \cup Range(queue.pending)
  /\ \A k \in 1..Len(enqLog) :
       LET j == <<enqLog[k].id, enqLog[k].g, enqLog[k].rowIndex>>
       IN j \in DOMAIN inflight \cup Range(queue.pending)
            \/ \E e \in DOMAIN events :
                 e.job = j /\ e.kind = IF outcomes[j] THEN "completed" ELSE "failed"

\* a run whose jobs ended both ways and whose drain() promise had to wait
C24_Witness ==
  /\ \E e \in DOMAIN events : e.kind = "failed"
  /\ \E e \in DOMAIN events : e.kind = "completed"
  /\ run.pc = "write"
  /\ run.promise \in DOMAIN drainLog
  /\ drainLog[run.promise].waited

\* C25: after all groups are scanned and all jobs submitted, every run that
\* is not skipped waits for the whole queue to drain before it returns: when
\* processReminders returns its summary, the queue has no pending and no
\* active job, so every job submitted during the run has settled.
C25_ReturnsOnlyWhenDrained ==
  Returned =>
    /\ Len(queue.pending) = 0
    /\ queue.active = 0
    /\ AllSettled

\* C26: the queue is reused across runs and each run's result counters cover
\* that run only: the sent count, failed count and failure list in a run's
\* summary count jobs enqueued during that run, and none settled in or left
\* over from an earlier run.
C26_CountersCoverThisRunOnly ==
  Returned =>
    LET mine == {<<enqLog[k].id, enqLog[k].g, enqLog[k].rowIndex>> : k \in 1..Len(enqLog)}
    IN /\ \A j \in Range(TheSummary.emailErrors) : j \in mine
       /\ TheSummary.emailsFailed <= Cardinality({j \in mine \cap DOMAIN outcomes : ~outcomes[j]})
       /\ TheSummary.emailsSent <= Cardinality({j \in mine \cap DOMAIN outcomes : outcomes[j]})

\* C27: every run admitted by the guard and not skipped for a weekend
\* returns a complete summary object and does not throw, for every
\* combination of malformed records, group scan failures, permanently failed
\* deliveries and write-back failures; these failures appear only as counts
\* and list entries in the summary.
C27_AlwaysACompleteSummary ==
  \A c \in calls.returned : c.started =>
    /\ ~c.threw
    /\ c.result = WeekendResult
         \/ /\ c.result.kind = "summary"
            /\ DOMAIN c.result =
                 {"kind", "skipped", "date", "tasksScanned", "tasksEligible",
                  "tasksSkippedCompleted", "tasksSkippedFuture", "tasksSkippedDedup",
                  "tasksSkippedBadData", "emailsSent", "emailsFailed", "emailErrors"}
            /\ ~c.result.skipped
            /\ \A f \in {"tasksScanned", "tasksEligible", "tasksSkippedCompleted",
                           "tasksSkippedFuture", "tasksSkippedDedup",
                           "tasksSkippedBadData", "emailsSent", "emailsFailed"} :
                 c.result[f] \in Nat
            /\ Len(c.result.emailErrors) = c.result.emailsFailed

\* one run met a malformed record, a sheet it could not read, a mail it
\* could not send and a write-back it could not make, and returned a summary
C27_Witness ==
  /\ Returned
  /\ TheSummary.tasksSkippedBadData > 0
  /\ TheSummary.emailsFailed > 0
  /\ \E k \in 1..Len(pageLog) : ~pageLog[k].ok
  /\ \E c \in writeLog : c.what = "failed"

\* C28: on process shutdown (SIGINT/SIGTERM), deliveries that are in flight
\* finish before the process exits: the process does not exit while the
\* queue has an active job, including a job that is sleeping between
\* retries.
C28_NoExitWhileActive ==
  proc.state = "exited" => queue.active = 0 /\ DOMAIN inflight = {}

C30_DrainsToZero ==
  /\ [][queue'.totalEnqueued = queue.totalEnqueued =>
          Len(queue'.pending) + queue'.active <= Len(queue.pending) + queue.active]_vars
  /\ (queue.worker /\ Len(queue.pending) + queue.active > 0)
       ~> (Len(queue.pending) + queue.active = 0)
  /\ [](Len(queue.pending) + queue.active = 0 =>
          /\ queue.drainResolvers = <<>>
          /\ \A p \in 1..drainSeq : p \in DOMAIN drainLog)

\* every job was submitted, the queue went down to zero and the two drain()
\* promises that waited for it are resolved
C30_Witness ==
  /\ queue.totalEnqueued = MaxJobs
  /\ Len(queue.pending) + queue.active = 0
  /\ queue.totalCompleted + queue.totalFailed = MaxJobs
  /\ drainSeq = MaxDrains
  /\ \A p \in 1..drainSeq : p \in DOMAIN drainLog /\ drainLog[p].waited

\* C31: stats() (queueStats) can be called in any state, including while a
\* run is in progress, and changes nothing: pending jobs, active count,
\* totals, drain waiters and the paused flag are all unchanged by the call,
\* and the snapshot equals the queue's counters in the state in which it was
\* called.
C31_StatsChangesNothing ==
  /\ [][response' # response =>
          /\ queue' = queue /\ inflight' = inflight
          /\ drainSeq' = drainSeq /\ drainLog' = drainLog
          /\ run' = run /\ runResults' = runResults
          /\ response'.emailQueue =
               [pending |-> Len(queue.pending), active |-> queue.active,
                totalEnqueued |-> queue.totalEnqueued,
                totalCompleted |-> queue.totalCompleted,
                totalFailed |-> queue.totalFailed]]_vars
  /\ [](ENABLED GetStatus)

\* the snapshot was taken while a run was waiting for the queue, with one job
\* pending behind the active ones and one already sent, and the run went on
C31_Witness ==
  /\ response # NoResponse
  /\ response.emailQueue.pending = 1
  /\ response.emailQueue.active = MaxConcurrency
  /\ response.emailQueue.totalCompleted = 1
  /\ response.scheduler.running
  /\ run.pc = "write"

\* C32: after drain, write-back is invoked at most once per group, only with
\* that group's own WriteBackUnits in scan order, and a write-back failure
\* never re-enqueues a delivery: a failed write-back of one group is logged,
\* does not prevent the write-back of later groups, and pushes no job to the
\* queue.
C32_WriteBackOncePerGroup ==
  /\ [](\A c \in writeLog : c.what = "call" =>
          LET mine == SelectSeq(enqLog, LAMBDA e : e.g = c.g)
          IN /\ \A d \in writeLog : (d.what = "call" /\ d.g = c.g) => d = c
             /\ \A d \in writeLog : (d.what = "call" /\ d.g < c.g) => d.n < c.n
             /\ Len(c.units) = Len(mine)
             /\ \A i \in 1..Len(mine) : c.units[i].rowIndex = mine[i].rowIndex
             /\ c.pending = 0 /\ c.active = 0)
  /\ [][(\E f \in writeLog' \ writeLog : f.what = "failed") =>
          /\ queue' = queue /\ inflight' = inflight /\ enqLog' = enqLog
          /\ IF run.w < Len(run.sheetUpdates)
             THEN \E c \in writeLog' \ writeLog :
                    c.what = "call" /\ c.g = run.sheetUpdates[run.w + 1].g
             ELSE \E r \in calls'.returned :
                    r.started /\ ~r.threw /\ r.result.kind = "summary"]_vars

\* the write-back of the first sheet failed and the second sheet was written
C32_Witness ==
  /\ Returned
  /\ \E f \in writeLog : f.what = "failed" /\ f.g = 1
  /\ \E c \in writeLog : c.what = "call" /\ c.g = 2
  /\ ~WriteFailed(2)
  /\ \E k \in 1..Len(sheet[2]) : sheet[2][k].fmt = "ist"

\* C33: while the queue is paused no new job is started (active never
\* increases), jobs that are already active still finish and release their
\* slots, and pushes are still accepted into pending; after resume() pending
\* jobs are started again up to the concurrency limit.
C33_PauseHoldsPending ==
  [][/\ (queue.paused /\ queue'.paused) =>
          /\ queue'.active <= queue.active
          /\ DOMAIN inflight' \subseteq DOMAIN inflight
          /\ queue'.totalCompleted + queue'.totalFailed
                 > queue.totalCompleted + queue.totalFailed =>
               /\ queue'.active = queue.active - 1
               /\ queue'.pending = queue.pending
          /\ queue'.totalEnqueued > queue.totalEnqueued =>
               /\ Len(queue'.pending) =
                    Len(queue.pending) + queue'.totalEnqueued - queue.totalEnqueued
               /\ SubSeq(queue'.pending, 1, Len(queue.pending)) = queue.pending
     /\ (queue.paused /\ ~queue'.paused /\ queue.worker) =>
          LET k == Min(queue.concurrency - queue.active, Len(queue.pending))
          IN /\ queue'.active = queue.active + k
             /\ queue'.pending = SubSeq(queue.pending, k + 1, Len(queue.pending))
             /\ DOMAIN inflight' =
                  DOMAIN inflight \cup {queue.pending[i] : i \in 1..k}
             /\ k < Len(queue.pending) => queue'.active = queue.concurrency]_vars

\* a paused queue with one of its two slots free after a job finished, and
\* two jobs waiting: the slot stays free until resume()
C33_Witness ==
  /\ queue.paused
  /\ queue.worker
  /\ queue.concurrency = 2
  /\ queue.active = 1
  /\ queue.totalCompleted = 1
  /\ Len(queue.pending) = 2

\* C34 as stated: jobs pushed before a worker is registered are kept in
\* pending and none is dropped or started; when process(fn) is called they
\* are started immediately, up to the concurrency limit, in the order they
\* were pushed.
C34_StartedOnProcess ==
  /\ [](~queue.worker =>
          /\ queue.active = 0 /\ DOMAIN inflight = {}
          /\ queue.pending = [i \in 1..queue.totalEnqueued |-> QJob(i)])
  /\ [][(~queue.worker /\ queue'.worker) =>
          LET k == Min(queue.concurrency, Len(queue.pending))
          IN /\ queue'.active = k
             /\ DOMAIN inflight' = {queue.pending[i] : i \in 1..k}
             /\ queue'.pending = SubSeq(queue.pending, k + 1, Len(queue.pending))]_vars

\* C34 as amended: jobs pushed before a worker is registered are kept in
\* pending and none is dropped or started; when process(fn) is called on a
\* queue that is not paused they are started immediately, up to the
\* concurrency limit, in the order they were pushed; when it is called on a
\* paused queue they stay in pending, in that order, until resume().
C34_StartedOnProcessUnlessPaused ==
  /\ [](~queue.worker =>
          /\ queue.active = 0 /\ DOMAIN inflight = {}
          /\ queue.pending = [i \in 1..queue.totalEnqueued |-> QJob(i)])
  /\ [][(~queue.worker /\ queue'.worker) =>
          LET k == IF queue.paused THEN 0
                   ELSE Min(queue.concurrency, Len(queue.pending))
          IN /\ queue'.active = k
             /\ DOMAIN inflight' = {queue.pending[i] : i \in 1..k}
             /\ queue'.pending = SubSeq(queue.pending, k + 1, Len(queue.pending))]_vars

\* three jobs were pushed before process(fn): the first two run, the third
\* waits
C34_Witness ==
  /\ queue.worker
  /\ ~queue.paused
  /\ queue.concurrency = 2
  /\ queue.totalEnqueued = 3
  /\ queue.totalCompleted + queue.totalFailed = 0
  /\ DOMAIN inflight = {QJob(1), QJob(2)}
  /\ queue.pending = <<QJob(3)>>
  /\ queue.drainResolvers # <<>>

\* C35: in every reachable state of AsyncQueue, totalEnqueued = pending +
\* active + totalCompleted + totalFailed: no job is lost or counted twice,
\* and the three totals never decrease.
C35_JobsConserved ==
  /\ [](/\ queue.totalEnqueued =
             Len(queue.pending) + queue.active + queue.totalCompleted
               + queue.totalFailed
        /\ \A n \in 1..queue.totalEnqueued :
             Cardinality({i \in 1..Len(queue.pending) : queue.pending[i] = QJob(n)})
               + (IF QJob(n) \in DOMAIN inflight THEN 1 ELSE 0)
               + Cardinality({e \in DOMAIN events : e.job = QJob(n)}) = 1
        /\ \A e \in DOMAIN events : events[e] = 1)
  /\ [][/\ queue'.totalEnqueued >= queue.totalEnqueued
        /\ queue'.totalCompleted >= queue.totalCompleted
        /\ queue'.totalFailed >= queue.totalFailed]_vars

\* four jobs pushed: one waits, one runs, one completed and one failed
C35_Witness ==
  /\ queue.totalEnqueued = 4
  /\ Len(queue.pending) = 1
  /\ queue.active = 1
  /\ queue.totalCompleted = 1
  /\ queue.totalFailed = 1

\* C36: in every returned run summary each scanned record is counted in
\* exactly one class: tasksScanned = tasksEligible + tasksSkippedCompleted +
\* tasksSkippedFuture + tasksSkippedDedup + tasksSkippedBadData, and
\* tasksEligible equals the number of jobs the run enqueued and the number of
\* WriteBackUnits it passed to write-back.
C36_SummaryPartitionsScanned ==
  Returned =>
    LET calledFor(g) == {c \in writeLog : c.what = "call" /\ c.g = g}
        unitsOf(g) == IF calledFor(g) = {} THEN 0
                      ELSE Len((CHOOSE c \in calledFor(g) : TRUE).units)
        passed == IF Len(rows) = 1 THEN unitsOf(1) ELSE unitsOf(1) + unitsOf(2)
    IN /\ TheSummary.tasksScanned =
            TheSummary.tasksEligible + TheSummary.tasksSkippedCompleted
              + TheSummary.tasksSkippedFuture + TheSummary.tasksSkippedDedup
              + TheSummary.tasksSkippedBadData
       /\ TheSummary.tasksEligible = Len(enqLog)
       /\ TheSummary.tasksEligible = passed

C38_ThrowCaughtLastRunKept ==
  /\ [][\A c \in calls'.returned \ calls.returned : c.started =>
          IF c.threw
          THEN /\ c.result = NullResult
               /\ sched'.lastResult = "error"
               /\ sched'.lastRun = sched.lastRun
               /\ ~sched'.running /\ run' = Idle
          ELSE /\ c.result.kind \in {"summary", "skip"}
               /\ sched'.lastResult = c.result.kind
               /\ sched'.lastRun = now
               /\ ~sched'.running /\ run' = Idle]_vars
  /\ [][(sched'.lastRun # sched.lastRun
           \/ (sched'.lastResult # sched.lastResult /\ sched'.lastResult # "error")) =>
          \E c \in calls'.returned : c.started /\ ~c.threw]_vars
  /\ [](\A c \in calls.returned :
          c.result = NullResult \/ c.result.kind \in {"summary", "skip"})

\* the run of the second day threw: _lastResult is the error record and
\* _lastRun is still the first day
C38_Witness ==
  /\ calls.n = 2
  /\ \E c \in calls.returned : c.started /\ c.threw /\ c.result = NullResult
  /\ sched.lastResult = "error"
  /\ sched.lastRun > 0
  /\ sched.lastRun < now
  /\ ~sched.running

C40_MissingSheetSkipped ==
  /\ [][(Len(pageLog') = Len(pageLog) + 1
           /\ "found" \in DOMAIN pageLog'[Len(pageLog')]) =>
          /\ enqLog' = enqLog /\ queue'.totalEnqueued = queue.totalEnqueued
          /\ inflight' = inflight /\ sheet' = sheet
          /\ IF run.g < Len(rows)
             THEN /\ run'.pc = "meta" /\ run'.g = run.g + 1
                  /\ run'.totals = run.totals
                  /\ run'.sheetUpdates = run.sheetUpdates
             ELSE IF run'.pc = "idle"
             THEN \E c \in calls'.returned :
                    /\ c.started /\ ~c.threw /\ c.result.kind = "summary"
                    /\ c.result.tasksScanned = run.totals.tasksScanned
                    /\ c.result.tasksEligible = run.totals.tasksEligible
             ELSE /\ run'.pc \in {"drain", "write"}
                  /\ run'.totals = run.totals
                  /\ run'.sheetUpdates = run.sheetUpdates]_vars
  /\ [](/\ \A c \in calls.returned : ~c.threw
        /\ \A k \in 1..Len(pageLog) : "found" \in DOMAIN pageLog[k] =>
             /\ \A m \in 1..Len(pageLog) : pageLog[m].g = pageLog[k].g => m = k
             /\ \A m \in 1..Len(enqLog) : enqLog[m].g # pageLog[k].g
             /\ \A c \in writeLog : c.g # pageLog[k].g)

\* the first sheet was not found; the second was scanned, mailed and written
C40_Witness ==
  /\ Returned
  /\ Len(pageLog) > 1
  /\ "found" \in DOMAIN pageLog[1]
  /\ pageLog[1].g = 1
  /\ TheSummary.tasksEligible = 1
  /\ TheSummary.emailsSent = 1
  /\ \E c \in writeLog : c.what = "call" /\ c.g = 2
  /\ \E k \in 1..Len(sheet[2]) : sheet[2][k].fmt = "ist"

====
